---- MODULE Spec2Model ----
(***************************************************************************)
(* F1ChartApp (src/main.py): a Tk window with a season entry, a chart-type *)
(* combobox, a "Fetch Data" button and an "Update Chart" button.  All work *)
(* runs on the single Tk event thread, so every handler is one atomic      *)
(* action.  Python strings whose characters matter (the season, numeric    *)
(* fields of a payload) are tuples of one-character strings.               *)
(***************************************************************************)
EXTENDS Integers, Sequences, FiniteSets, TLC

VARIABLES
    season_entry,   \* text of self.season_entry
    chart_type,     \* selection of self.chart_type
    data,           \* self.data: a dict, here a function on the keys stored
    ax,             \* self.ax: content of the axes
    handler,        \* the user action handled last
    message,        \* message box shown by that action
    requests,       \* HTTP GETs issued by that action, in order
    surface_calls,  \* calls on self.ax / self.canvas made by that action
    raised          \* exception that left that action's handler

vars == <<season_entry, chart_type, data, ax, handler, message,
          requests, surface_calls, raised>>

----------------------------------------------------------------------------
(* Bounds *)

MaxRaces == 2           \* most races in an enumerated results payload
MaxResults == 3         \* most result entries, over all races, in such a payload

----------------------------------------------------------------------------
(* Strings and numbers *)

Digits == <<"0", "1", "2", "3", "4", "5", "6", "7", "8", "9">>

IsDigitChar(c) == \E i \in 1..Len(Digits) : Digits[i] = c

DigitValue(c) == (CHOOSE i \in 1..Len(Digits) : Digits[i] = c) - 1

AllDigits(s) == \A i \in 1..Len(s) : IsDigitChar(s[i])

RECURSIVE DigitsValue(_)
DigitsValue(s) ==
    IF s = <<>> THEN 0
    ELSE 10 * DigitsValue(SubSeq(s, 1, Len(s) - 1)) + DigitValue(s[Len(s)])

\* a check written as all(c.isdigit() for c in season): true of ""
isdigit_accepts_empty(s) == AllDigits(s)

\* a check written as season.isdigit() and int(season) > 0
isdigit_and_positive(s) == Len(s) > 0 /\ AllDigits(s) /\ DigitsValue(s) > 0

\* str.isdigit(): false for the empty string, true when every character is a digit
isdigit(s) == Len(s) > 0 /\ AllDigits(s)

RECURSIVE Pow10(_)
Pow10(n) == IF n = 0 THEN 1 ELSE 10 * Pow10(n - 1)

RECURSIVE GCD(_, _)
GCD(a, b) == IF b = 0 THEN a ELSE GCD(b, a % b)

\* a Python float that is the quotient of two naturals, kept exact
Ratio(n, d) == LET g == GCD(n, d) IN [num |-> n \div g, den |-> d \div g]

Ok(v) == [raised |-> "none", value |-> v]
Raise(e) == [raised |-> e]

\* int(text) on a decimal string field; anything else is a ValueError
int(s) == IF isdigit(s) THEN Ok(DigitsValue(s)) ELSE Raise("ValueError")

\* float(text) on "ddd" or "ddd.ddd"; anything else is a ValueError
float(s) ==
    LET dots == {i \in 1..Len(s) : s[i] = "."} IN
    IF dots = {} THEN
        IF isdigit(s) THEN Ok(Ratio(DigitsValue(s), 1)) ELSE Raise("ValueError")
    ELSE IF Cardinality(dots) > 1 THEN Raise("ValueError")
    ELSE LET p == CHOOSE i \in dots : TRUE
             whole == SubSeq(s, 1, p - 1)
             frac == SubSeq(s, p + 1, Len(s))
         IN  IF isdigit(whole \o frac)
             THEN Ok(Ratio(DigitsValue(whole \o frac), Pow10(Len(frac))))
             ELSE Raise("ValueError")

----------------------------------------------------------------------------
(* Python dicts: self.data is keyed by payload kind; the aggregation dicts *)
(* keep insertion order, so they are sequences of items.                   *)

EmptyStore == [k \in {} |-> {}]

Put(d, k, v) == [x \in (DOMAIN d) \cup {k} |-> IF x = k THEN v ELSE d[x]]

HasKey(d, k) == \E i \in 1..Len(d) : d[i].key = k

DictGet(d, k, default) ==
    IF HasKey(d, k) THEN d[CHOOSE i \in 1..Len(d) : d[i].key = k].value
    ELSE default

DictSet(d, k, v) ==
    IF HasKey(d, k)
    THEN [i \in 1..Len(d) |-> IF d[i].key = k THEN [key |-> k, value |-> v] ELSE d[i]]
    ELSE Append(d, [key |-> k, value |-> v])

Keys(d) == [i \in 1..Len(d) |-> d[i].key]
Values(d) == [i \in 1..Len(d) |-> d[i].value]

----------------------------------------------------------------------------
(* Payloads.  A decoded response keeps the fields the program reads:       *)
(*   driverStandings       [season, StandingsLists: <<DriverStandings>>]   *)
(*                         entry [familyName, points]                      *)
(*   results               [season, Races: <<[Results: <<entry>>]>>]       *)
(*                         entry [familyName, position]                    *)
(*   constructorStandings  [season, StandingsLists: <<ConstructorStandings>>] *)
(*                         entry [name, points]                            *)
(* StandingsLists is empty for a season the API has no standings for.      *)

ChartTypes == <<"Total Points Distribution",
                "Average Finish Position by Driver",
                "Most Wins by Driver",
                "Constructor Championship Standings",
                "Podium Finishes by Driver">>

Chart(title, xlabel, ylabel, labels, values) ==
    [title |-> title, xlabel |-> xlabel, ylabel |-> ylabel,
     labels |-> labels, values |-> values, rotation |-> 90]

\* [float(e['points']) for e in standings]: the first bad field raises
RECURSIVE FloatAll(_, _, _)
FloatAll(standings, i, acc) ==
    IF i > Len(standings) THEN Ok(acc)
    ELSE LET f == float(standings[i].points) IN
         IF f.raised # "none" THEN f
         ELSE FloatAll(standings, i + 1, Append(acc, f.value))

plot_total_points_distribution(d) ==
    IF "standings" \notin DOMAIN d THEN Raise("KeyError")
    ELSE IF d["standings"].StandingsLists = <<>> THEN Raise("IndexError")
    ELSE LET standings == d["standings"].StandingsLists[1]
             drivers == [i \in 1..Len(standings) |-> standings[i].familyName]
             points == FloatAll(standings, 1, <<>>)
         IN  IF points.raised # "none" THEN points
             ELSE Ok(Chart("Total Points Distribution", "Driver", "Total Points",
                           drivers, points.value))

plot_constructor_championship_standings(d) ==
    IF "constructor_standings" \notin DOMAIN d THEN Raise("KeyError")
    ELSE IF d["constructor_standings"].StandingsLists = <<>> THEN Raise("IndexError")
    ELSE LET standings == d["constructor_standings"].StandingsLists[1]
             constructors == [i \in 1..Len(standings) |-> standings[i].name]
             points == FloatAll(standings, 1, <<>>)
         IN  IF points.raised # "none" THEN points
             ELSE Ok(Chart("Constructor Championship Standings", "Constructor",
                           "Points", constructors, points.value))

\* finish_positions[driver].append(position), creating the list on first sight
AppendPosition(finish_positions, driver, position) ==
    DictSet(finish_positions, driver,
            Append(DictGet(finish_positions, driver, <<>>), position))

\* the two nested for loops of plot_average_finish_position_by_driver
RECURSIVE FinishPositionsLoop(_, _, _, _)
FinishPositionsLoop(results, r, k, finish_positions) ==
    IF r > Len(results) THEN Ok(finish_positions)
    ELSE IF k > Len(results[r].Results)
         THEN FinishPositionsLoop(results, r + 1, 1, finish_positions)
    ELSE LET result == results[r].Results[k]
             position == int(result.position)
         IN  IF position.raised # "none" THEN position
             ELSE FinishPositionsLoop(results, r, k + 1,
                      AppendPosition(finish_positions, result.familyName,
                                     position.value))

RECURSIVE sum(_)
sum(positions) ==
    IF positions = <<>> THEN 0 ELSE positions[1] + sum(Tail(positions))

\* sum(positions) // len(positions)
Average_floor(positions) == Ratio(sum(positions) \div Len(positions), 1)

\* sum(positions) / len(positions)
Average(positions) == Ratio(sum(positions), Len(positions))

plot_average_finish_position_by_driver(d) ==
    IF "results" \notin DOMAIN d THEN Raise("KeyError")
    ELSE LET loop == FinishPositionsLoop(d["results"].Races, 1, 1, <<>>) IN
         IF loop.raised # "none" THEN loop
         ELSE LET finish_positions == loop.value
                  drivers == Keys(finish_positions)
                  avg_positions == [i \in 1..Len(finish_positions) |->
                                       Average(finish_positions[i].value)]
              IN  Ok(Chart("Average Finish Position by Driver", "Driver",
                           "Average Finish Position", drivers, avg_positions))

\* win_counts[driver] = 1
CountWin_overwrite(win_counts, driver) == DictSet(win_counts, driver, 1)

\* win_counts[driver] = win_counts.get(driver, 0) + 1
CountWin(win_counts, driver) ==
    DictSet(win_counts, driver, DictGet(win_counts, driver, 0) + 1)

\* the for loop of plot_most_wins_by_driver
RECURSIVE WinCountsLoop(_, _, _)
WinCountsLoop(results, r, win_counts) ==
    IF r > Len(results) THEN Ok(win_counts)
    ELSE IF results[r].Results = <<>> THEN Raise("IndexError")
    ELSE LET winner == results[r].Results[1] IN
         WinCountsLoop(results, r + 1, CountWin(win_counts, winner.familyName))

plot_most_wins_by_driver(d) ==
    IF "results" \notin DOMAIN d THEN Raise("KeyError")
    ELSE LET loop == WinCountsLoop(d["results"].Races, 1, <<>>) IN
         IF loop.raised # "none" THEN loop
         ELSE Ok(Chart("Most Wins by Driver", "Driver", "Wins",
                       Keys(loop.value), Values(loop.value)))

\* if position < 3:
OnPodium_strict(position) == position < 3

\* if position <= 3:
OnPodium(position) == position <= 3

\* the two nested for loops of plot_podium_finishes_by_driver
RECURSIVE PodiumCountsLoop(_, _, _, _)
PodiumCountsLoop(results, r, k, podium_counts) ==
    IF r > Len(results) THEN Ok(podium_counts)
    ELSE IF k > Len(results[r].Results)
         THEN PodiumCountsLoop(results, r + 1, 1, podium_counts)
    ELSE LET result == results[r].Results[k]
             position == int(result.position)
         IN  IF position.raised # "none" THEN position
             ELSE IF OnPodium(position.value)
             THEN PodiumCountsLoop(results, r, k + 1,
                      DictSet(podium_counts, result.familyName,
                              DictGet(podium_counts, result.familyName, 0) + 1))
             ELSE PodiumCountsLoop(results, r, k + 1, podium_counts)

plot_podium_finishes_by_driver(d) ==
    IF "results" \notin DOMAIN d THEN Raise("KeyError")
    ELSE LET loop == PodiumCountsLoop(d["results"].Races, 1, 1, <<>>) IN
         IF loop.raised # "none" THEN loop
         ELSE Ok(Chart("Podium Finishes by Driver", "Driver", "Podium Finishes",
                       Keys(loop.value), Values(loop.value)))

\* the if / elif chain of update_chart
Plot(type, d) ==
    CASE type = "Total Points Distribution" -> plot_total_points_distribution(d)
      [] type = "Average Finish Position by Driver" ->
             plot_average_finish_position_by_driver(d)
      [] type = "Most Wins by Driver" -> plot_most_wins_by_driver(d)
      [] type = "Constructor Championship Standings" ->
             plot_constructor_championship_standings(d)
      [] type = "Podium Finishes by Driver" -> plot_podium_finishes_by_driver(d)

----------------------------------------------------------------------------
(* The remote API.  A GET either fails (requests.get raises, or            *)
(* raise_for_status raises on a non-success status; both are               *)
(* requests.RequestException) or returns a JSON body for the season asked. *)

Endpoints == <<"driverStandings.json", "results.json?limit=1000",
               "constructorStandings.json">>

Url(season, endpoint) == [season |-> season, endpoint |-> endpoint]

Failures == {"RequestException"}

Entry(driver, position) == [familyName |-> driver, position |-> position]

Race(results) == [Results |-> results]

GoodStandings ==
    << << [familyName |-> "Hamilton", points |-> <<"2", "5">>],
          [familyName |-> "Verstappen", points |-> <<"1", "8", ".", "5">>] >> >>

GoodRaces ==
    << Race(<< Entry("Hamilton", <<"1">>), Entry("Verstappen", <<"2">>) >>),
       Race(<< Entry("Verstappen", <<"1">>), Entry("Hamilton", <<"1", "2">>) >>) >>

GoodConstructors ==
    << << [name |-> "Mercedes", points |-> <<"4", "3", ".", "5">>],
          [name |-> "Red Bull", points |-> <<"4", "0">>] >> >>

\* what the API serves while the application runs: a season with standings
\* and races, or one it has no standings for
StandingsBodies == {<<>>, GoodStandings}
RacesBodies == {GoodRaces}
ConstructorBodies == {GoodConstructors}

Bodies(url) ==
    CASE url.endpoint = Endpoints[1] ->
             {[season |-> url.season, StandingsLists |-> b] : b \in StandingsBodies}
      [] url.endpoint = Endpoints[2] ->
             {[season |-> url.season, Races |-> b] : b \in RacesBodies}
      [] url.endpoint = Endpoints[3] ->
             {[season |-> url.season, StandingsLists |-> b] : b \in ConstructorBodies}

Responses(url) ==
    {[error |-> e] : e \in Failures}
    \cup {[error |-> "none", json |-> b] : b \in Bodies(url)}

----------------------------------------------------------------------------
(* The application *)

NoMessage == <<"none">>
showerror(text) == <<"showerror", "Error", text>>
showinfo(text) == <<"showinfo", "Success", text>>
FetchFailed(e) == <<"Failed to fetch data: ", e>>

EmptyAxes ==
    [title |-> "", xlabel |-> "", ylabel |-> "", labels |-> <<>>,
     values |-> <<>>, rotation |-> 0]

\* what the user types into the season entry
SeasonTexts ==
    { <<>>, <<"a", "b", "c">>, <<"2", "0", "2", "x">>,
      <<"0">>, <<"0", "0", "0", "0">>, <<"2", "0", "2", "1">> }

\* __init__ and setup_ui
Init ==
    /\ season_entry = <<>>
    /\ chart_type = ChartTypes[1]
    /\ data = EmptyStore
    /\ ax = EmptyAxes
    /\ handler = "init"
    /\ message = NoMessage
    /\ requests = <<>>
    /\ surface_calls = <<>>
    /\ raised = "none"

\* the user edits the season entry
enter_season(text) ==
    /\ season_entry' = text
    /\ handler' = "enter_season"
    /\ message' = NoMessage
    /\ requests' = <<>>
    /\ surface_calls' = <<>>
    /\ raised' = "none"
    /\ UNCHANGED <<chart_type, data, ax>>

\* the user picks an entry of the read-only combobox
select_chart_type(type) ==
    /\ chart_type' = type
    /\ handler' = "select_chart_type"
    /\ message' = NoMessage
    /\ requests' = <<>>
    /\ surface_calls' = <<>>
    /\ raised' = "none"
    /\ UNCHANGED <<season_entry, data, ax>>

\* one "get, raise_for_status, self.data[key] = json()" of the try block;
\* after a RequestException the rest of the block is skipped
Request(st, key, endpoint, response) ==
    IF st.failed # "none" THEN st
    ELSE IF response.error # "none"
    THEN [st EXCEPT !.requests = Append(@, Url(st.season, endpoint)),
                    !.failed = response.error]
    ELSE [st EXCEPT !.requests = Append(@, Url(st.season, endpoint)),
                    !.data = Put(@, key, response.json)]

\* "Fetch Data"
fetch_data ==
    /\ handler' = "fetch_data"
    /\ surface_calls' = <<>>
    /\ raised' = "none"
    /\ UNCHANGED <<season_entry, chart_type, ax>>
    /\ LET season == season_entry IN
       IF ~isdigit(season)
       THEN /\ message' = showerror(<<"Please enter a valid season year.">>)
            /\ requests' = <<>>
            /\ data' = data
       ELSE \E r1 \in Responses(Url(season, Endpoints[1])) :
            \E r2 \in Responses(Url(season, Endpoints[2])) :
            \E r3 \in Responses(Url(season, Endpoints[3])) :
              LET st0 == [season |-> season, data |-> data, requests |-> <<>>,
                          failed |-> "none"]
                  st1 == Request(st0, "standings", Endpoints[1], r1)
                  st2 == Request(st1, "results", Endpoints[2], r2)
                  st3 == Request(st2, "constructor_standings", Endpoints[3], r3)
              IN  /\ data' = st3.data
                  /\ requests' = st3.requests
                  /\ message' = IF st3.failed = "none"
                                THEN showinfo(<<"Data fetched successfully!">>)
                                ELSE showerror(FetchFailed(st3.failed))

\* if self.data is None:
IsEmpty_is_none(d) == FALSE

\* if not self.data:
IsEmpty(d) == DOMAIN d = {}

\* "Update Chart"
update_chart ==
    /\ handler' = "update_chart"
    /\ requests' = <<>>
    /\ UNCHANGED <<season_entry, chart_type, data>>
    /\ IF IsEmpty(data)
       THEN /\ message' = showerror(<<"No data available. Please fetch data first.">>)
            /\ surface_calls' = <<>>
            /\ raised' = "none"
            /\ ax' = ax
       ELSE LET plot == Plot(chart_type, data) IN
            /\ message' = NoMessage
            /\ raised' = plot.raised
            /\ IF plot.raised # "none"
               THEN /\ ax' = EmptyAxes
                    /\ surface_calls' = <<"ax.clear">>
               ELSE /\ ax' = plot.value
                    /\ surface_calls' = <<"ax.clear", "ax.bar", "canvas.draw">>

Next ==
    \/ \E text \in SeasonTexts : enter_season(text)
    \/ \E i \in 1..Len(ChartTypes) : select_chart_type(ChartTypes[i])
    \/ fetch_data
    \/ update_chart

Spec == Init /\ [][Next]_vars

----------------------------------------------------------------------------
(* The aggregation functions on every small payload: the application      *)
(* starts with a store already fetched for one season and the user presses *)
(* "Update Chart".                                                         *)

Drivers == {"Hamilton", "Verstappen"}
Positions == {<<"1">>, <<"2">>, <<"3">>, <<"4">>}
Entries == {Entry(d, p) : d \in Drivers, p \in Positions}

\* every sequence of at most r races, each with a result, holding at most
\* t results in all
RECURSIVE RacesUpTo(_, _)
RacesUpTo(r, t) ==
    IF r = 0 THEN {<<>>}
    ELSE {<<>>} \cup
         UNION { { <<Race(results)>> \o rest :
                       results \in [1..k -> Entries],
                       rest \in RacesUpTo(r - 1, t - k) } : k \in 1..t }

\* payloads with a malformed field, an empty result list or no standings list
OddStandings == {<<>>, GoodStandings,
                 << << [familyName |-> "Hamilton", points |-> <<"-">>] >> >>}
OddRaces == {GoodRaces, << Race(<<>>) >>,
             << Race(<< Entry("Hamilton", <<"R">>) >>) >>}
OddConstructors == {<<>>, GoodConstructors}

Store(season, standings, races, constructors) ==
    [k \in {"standings", "results", "constructor_standings"} |->
        CASE k = "standings" -> [season |-> season, StandingsLists |-> standings]
          [] k = "results" -> [season |-> season, Races |-> races]
          [] k = "constructor_standings" ->
                 [season |-> season, StandingsLists |-> constructors]]

SeasonStores ==
    {Store(<<"2", "0", "2", "1">>, GoodStandings, r, GoodConstructors) :
         r \in RacesUpTo(MaxRaces, MaxResults)}

OddStores ==
    {Store(<<"2", "0", "2", "1">>, s, r, c) :
         s \in OddStandings, r \in OddRaces, c \in OddConstructors}

AggInit ==
    /\ season_entry = <<"2", "0", "2", "1">>
    /\ \/ /\ data \in SeasonStores
          /\ chart_type \in {ChartTypes[2], ChartTypes[3], ChartTypes[5]}
       \/ /\ data \in OddStores
          /\ chart_type \in {ChartTypes[i] : i \in 1..Len(ChartTypes)}
    /\ ax = EmptyAxes
    /\ handler = "init"
    /\ message = NoMessage
    /\ requests = <<>>
    /\ surface_calls = <<>>
    /\ raised = "none"

AggNext == update_chart

AggSpec == AggInit /\ [][AggNext]_vars

----------------------------------------------------------------------------
(* Properties *)

DecimalDigits == {"0", "1", "2", "3", "4", "5", "6", "7", "8", "9"}
DigitString(s) == s # <<>> /\ \A i \in 1..Len(s) : s[i] \in DecimalDigits
ZeroString(s) == \A i \in 1..Len(s) : s[i] = "0"

ValidationError == <<"showerror", "Error", <<"Please enter a valid season year.">>>>
NoDataError ==
    <<"showerror", "Error", <<"No data available. Please fetch data first.">>>>
FetchError == <<"showerror", "Error", <<"Failed to fetch data: ", "RequestException">>>>
StoreKeys == {"standings", "results", "constructor_standings"}

\* C1: from an empty store, a fetch_data in which a request fails leaves the
\* store empty (so that update_chart still reports "no data").
C1_FailedFetchRetainsNothing ==
    [][(data = EmptyStore /\ handler' = "fetch_data" /\ message' = FetchError)
           => data' = EmptyStore]_vars

\* C2: with all three payloads stored, a fetch_data in which a request fails
\* leaves the three stored payloads as they were.
C2_FailedFetchKeepsPayloads ==
    [][(DOMAIN data = StoreKeys /\ handler' = "fetch_data" /\ message' = FetchError)
           => data' = data]_vars

\* C3: fetch_data on a season text that is not a non-empty string of digits
\* shows the validation error, issues no request and leaves the store alone.
C3_NonDigitSeasonRejected ==
    [][(handler' = "fetch_data" /\ ~DigitString(season_entry))
           => /\ message' = ValidationError
              /\ requests' = <<>>
              /\ data' = data]_vars

C3_Witness ==
    /\ handler = "fetch_data"
    /\ season_entry = <<"a", "b", "c">>
    /\ message = ValidationError
    /\ requests = <<>>
    /\ DOMAIN data = StoreKeys

C5_UpdateWithoutDataLeavesSurface ==
    [][(handler' = "update_chart" /\ data = EmptyStore)
           => /\ message' = NoDataError
              /\ ax' = ax
              /\ surface_calls' = <<>>
              /\ raised' = "none"]_vars

C5_Witness ==
    /\ handler = "update_chart"
    /\ data = EmptyStore
    /\ chart_type = "Podium Finishes by Driver"
    /\ message = NoDataError
    /\ surface_calls = <<>>

\* C6: no exception leaves the handler of a user action.
C6_NoExceptionEscapes == raised = "none"

\* C10: all payloads in the store were fetched for one and the same season.
C10_OneSeasonInStore ==
    \A j, k \in DOMAIN data : data[j].season = data[k].season

\* The results payload in the store, read without the program's loops.
StoredRaces == data["results"].Races

RECURSIVE AllResults(_)
AllResults(races) ==
    IF races = <<>> THEN <<>> ELSE races[1].Results \o AllResults(Tail(races))

Appearances(driver) ==
    {i \in 1..Len(AllResults(StoredRaces)) :
         AllResults(StoredRaces)[i].familyName = driver}

PlaceAt(i) == DigitsValue(AllResults(StoredRaces)[i].position)

PlacesOf(driver) ==
    LET mine == SelectSeq(AllResults(StoredRaces),
                          LAMBDA e : e.familyName = driver)
    IN  [i \in 1..Len(mine) |-> DigitsValue(mine[i].position)]

RECURSIVE Total(_)
Total(numbers) == IF numbers = <<>> THEN 0 ELSE numbers[1] + Total(Tail(numbers))

DriversSeen == {AllResults(StoredRaces)[i].familyName :
                    i \in 1..Len(AllResults(StoredRaces))}

FirstSeen(driver) == CHOOSE i \in Appearances(driver) :
                         \A j \in Appearances(driver) : i <= j

Distinct(labels) ==
    \A i, j \in 1..Len(labels) : labels[i] = labels[j] => i = j

BarOf(driver) == ax.values[CHOOSE i \in 1..Len(ax.labels) : ax.labels[i] = driver]

Drawn(type) ==
    /\ handler = "update_chart"
    /\ chart_type = type
    /\ raised = "none"
    /\ ax.title = type
    /\ surface_calls = <<"ax.clear", "ax.bar", "canvas.draw">>

\* C7: the win counts drawn sum to the number of races of the payload; each
\* race adds one win to the driver of its first result entry and to nobody else.
C7_WinsSumToRaces ==
    (handler = "update_chart" /\ chart_type = "Most Wins by Driver"
         /\ raised = "none")
    => /\ Drawn("Most Wins by Driver")
       /\ Len(ax.values) = Len(ax.labels)
       /\ Distinct(ax.labels)
       /\ Total(ax.values) = Len(StoredRaces)
       /\ \A i \in 1..Len(ax.labels) :
              /\ ax.values[i] > 0
              /\ ax.values[i] =
                     Cardinality({r \in 1..Len(StoredRaces) :
                         StoredRaces[r].Results[1].familyName = ax.labels[i]})

C7_Witness ==
    /\ Drawn("Most Wins by Driver")
    /\ Len(StoredRaces) = 2
    /\ Len(StoredRaces[1].Results) = 2
    /\ StoredRaces[1].Results[1].position = <<"4">>
    /\ ax.labels = <<"Verstappen", "Hamilton">>
    /\ ax.values = <<1, 1>>

\* C8: the podium chart counts no result placed worse than third; a driver's
\* count is the number of that driver's results placed third or better, and a
\* driver without such a result has no bar.
C8_PodiumCountsOnlyTopThree ==
    (handler = "update_chart" /\ chart_type = "Podium Finishes by Driver"
         /\ raised = "none")
    => /\ Drawn("Podium Finishes by Driver")
       /\ Len(ax.values) = Len(ax.labels)
       /\ Distinct(ax.labels)
       /\ \A i \in 1..Len(ax.labels) : ax.labels[i] \in DriversSeen
       /\ \A driver \in DriversSeen :
              LET podiums == {i \in Appearances(driver) : PlaceAt(i) <= 3} IN
              IF podiums = {}
              THEN \A i \in 1..Len(ax.labels) : ax.labels[i] # driver
              ELSE /\ \E i \in 1..Len(ax.labels) : ax.labels[i] = driver
                   /\ BarOf(driver) = Cardinality(podiums)

C8_Witness ==
    /\ Drawn("Podium Finishes by Driver")
    /\ PlacesOf("Hamilton") = <<4, 3>>
    /\ PlacesOf("Verstappen") = <<4>>
    /\ ax.labels = <<"Hamilton">>
    /\ ax.values = <<1>>

\* C9: the average chart has one bar per distinct driver, in the order the
\* drivers are first seen; a bar's value times the number of the driver's
\* results is the sum of the driver's positions, and positions 1, 3, 2 give 2.
C9_AverageIsMeanPerDriver ==
    (handler = "update_chart" /\ chart_type = "Average Finish Position by Driver"
         /\ raised = "none")
    => /\ Drawn("Average Finish Position by Driver")
       /\ Len(ax.values) = Len(ax.labels)
       /\ Distinct(ax.labels)
       /\ {ax.labels[i] : i \in 1..Len(ax.labels)} = DriversSeen
       /\ \A i, j \in 1..Len(ax.labels) :
              i < j => FirstSeen(ax.labels[i]) < FirstSeen(ax.labels[j])
       /\ \A i \in 1..Len(ax.labels) :
              LET places == PlacesOf(ax.labels[i]) IN
              /\ ax.values[i].den > 0
              /\ ax.values[i].num * Len(places) = Total(places) * ax.values[i].den
              /\ places = <<1, 3, 2>> => ax.values[i] = [num |-> 2, den |-> 1]

C9_Witness ==
    /\ Drawn("Average Finish Position by Driver")
    /\ Len(StoredRaces) = 2
    /\ PlacesOf("Hamilton") = <<1, 3, 2>>
    /\ ax.labels = <<"Hamilton">>
    /\ ax.values = <<[num |-> 2, den |-> 1]>>

====
